---- MODULE Spec2Model ----
(***************************************************************************)
(* Model of the debit engine of eriott/debitor: TransactionsService        *)
(* (createTransaction, executeWithRetry, processTransaction and the two    *)
(* error classifiers) running against a PostgreSQL store at SERIALIZABLE   *)
(* isolation.  Amounts and balances are counted in the smallest unit of    *)
(* the decimal(10,2) columns (0.01).                                       *)
(*                                                                         *)
(* Each request is one execution context; its position is pc[r]:           *)
(*   idle     not issued yet                                               *)
(*   exists   about to run userRepository.exists          (line 97)        *)
(*   update   about to open the scope and run the UPDATE  (lines 103-111)  *)
(*   wait_row the UPDATE is blocked on the row lock of another scope       *)
(*   insert   the UPDATE changed one row; about to save   (lines 117-124)  *)
(*   wait_key the INSERT is blocked on an uncommitted entry of its key     *)
(*   commit   the record is saved; about to commit        (line 128)       *)
(*   failed   err[r] was thrown; an open scope is not rolled back yet      *)
(*   delay    in the backoff delay of executeWithRetry    (line 59)        *)
(*   done     the promise of createTransaction is settled with result[r]   *)
(*                                                                         *)
(* balance and history are the committed rows.  written[r] and saved[r]    *)
(* are the row version and the record that r's open scope wrote and has    *)
(* not committed.  delayMs[r] is the length of the backoff delay r is in,   *)
(* in whole milliseconds, 0 when it is in none.                            *)
(* seen[r] is auxiliary and read by no action: what held                   *)
(* when r was issued (the record of its key, the balance of its user,      *)
(* alone: no request was in flight, early: no request had ended).          *)
(***************************************************************************)
EXTENDS Integers, FiniteSets, TLC

VARIABLES balance, history, rowLock, keyLock, req, pc, attempt, written, saved,
          err, result, seen, delayMs

vars == <<balance, history, rowLock, keyLock, req, pc, attempt, written, saved,
          err, result, seen, delayMs>>

(* ---------------------------- bounds ---------------------------------- *)
NumReqs == 2
NumUsers == 2
NumKeys == 2
InitBalance == 3
\* Math.random() is drawn from the multiples of 1/JitterSteps below 1
JitterSteps == 2

(* ------------------------ program constants --------------------------- *)
MAX_RETRIES == 5
RETRY_DELAY_MS == 50

Reqs == 1..NumReqs
Users == 1..NumUsers
\* one id beyond the stored users: a userId that names no row
UserIds == 1..(NumUsers + 1)
Keys == 1..NumKeys
\* what @Headers('idempotency-key') yields besides a key: the empty string
\* of a header sent without a value, undefined when the header is not sent
EmptyKey == 0
AbsentKey == 0 - 1
\* the amounts of the requests: one unit, and all of the initial balance but
\* one unit (two of those do not fit)
Amounts == {1, InitBalance - 1}

NoReq == [userId |-> 0, amount |-> 0, idempotencyKey |-> 0]
NoRec == [id |-> <<0, 0>>, userId |-> 0, action |-> "NONE", amount |-> 0,
          idempotencyKey |-> 0, ts |-> 0]
NoErr == [qfe |-> FALSE, code |-> "none", idem |-> FALSE, msg |-> FALSE]
NoSeen == [rec |-> NoRec, balance |-> 0, alone |-> FALSE, early |-> FALSE]
NoResult == [kind |-> "pending", rec |-> NoRec, error |-> NoErr]

\* mutant: the key of the request is not stored in the record
TransactionHistory_NoKey(i, u, a, k, t) ==
  [id |-> i, userId |-> u, action |-> "DEBIT", amount |-> a,
   idempotencyKey |-> 0, ts |-> t]

\* TransactionHistory row
TransactionHistory(i, u, a, k, t) ==
  [id |-> i, userId |-> u, action |-> "DEBIT", amount |-> a,
   idempotencyKey |-> k, ts |-> t]

(* ------------------------ failure signatures -------------------------- *)
\* qfe: instance of QueryFailedError; code: the PostgreSQL code, or the
\* name of the exception for a failure that carries no code;
\* idem: constraint or detail names the idempotency key;
\* msg: the message holds one of the two serialization texts.
SerializationFailure == [qfe |-> TRUE, code |-> "40001", idem |-> FALSE, msg |-> TRUE]
DeadlockDetected == [qfe |-> TRUE, code |-> "40P01", idem |-> FALSE, msg |-> FALSE]
UniqueViolation == [qfe |-> TRUE, code |-> "23505", idem |-> TRUE, msg |-> FALSE]
OtherQueryFailure == [qfe |-> TRUE, code |-> "other", idem |-> FALSE, msg |-> FALSE]
ConnectionFailure == [qfe |-> FALSE, code |-> "conn", idem |-> FALSE, msg |-> FALSE]

\* BadRequestException('Idempotency-Key header is required')
BadRequest == [qfe |-> FALSE, code |-> "bad_request", idem |-> FALSE, msg |-> FALSE]

\* the exceptions processTransaction throws itself
\* NotFoundException(`User with id ${userId} not found`)
NotFound == [qfe |-> FALSE, code |-> "not_found", idem |-> FALSE, msg |-> FALSE]
\* ConflictException('Insufficient funds')
InsufficientFunds ==
  [qfe |-> FALSE, code |-> "insufficient_funds", idem |-> FALSE, msg |-> FALSE]
\* ConflictException('Duplicate transaction detected but not found in database')
DuplicateNotFound == [qfe |-> FALSE, code |-> "conflict", idem |-> FALSE, msg |-> FALSE]

ProcessorExceptions == {NotFound, InsufficientFunds, DuplicateNotFound}

\* mutant: only a detected deadlock is retried
isRetryableError_DeadlockOnly(error) ==
  IF ~error.qfe THEN FALSE
  ELSE error.code = "40P01"

isRetryableError(error) ==
  IF ~error.qfe THEN FALSE
  ELSE error.code = "40001" \/ error.code = "40P01" \/ error.msg

isIdempotencyError(error) ==
  error.code = "23505" /\ error.idem

(* ----------------------------- backoff -------------------------------- *)
\* Math.pow(2, n)
RECURSIVE Pow2(_)
Pow2(n) == IF n <= 0 THEN 1 ELSE 2 * Pow2(n - 1)

\* baseDelay = RETRY_DELAY_MS * Math.pow(2, attempt - 1)
baseDelay(att) == RETRY_DELAY_MS * Pow2(att - 1)

\* the values j of Math.random() * JitterSteps
Randoms == 0..(JitterSteps - 1)

\* mutant: the jitter ranges over the whole base delay
jitter_Whole(att, j) == (j * baseDelay(att)) \div JitterSteps

\* jitter = Math.random() * baseDelay * 0.5, in the whole milliseconds the
\* timer of delay(ms) counts
jitter(att, j) == (j * baseDelay(att)) \div (2 * JitterSteps)

(* ----------------------------- results -------------------------------- *)
Success(rec) == [kind |-> "success", rec |-> rec, error |-> NoErr]
Failure(kind, e) == [kind |-> kind, rec |-> NoRec, error |-> e]

\* what the caller is answered when e leaves createTransaction: the
\* exception of the processor (404, 409) or the storage error
Rejected(e) ==
  Failure(IF e \in ProcessorExceptions THEN e.code ELSE "storage_error", e)

(* ------------------------------ store --------------------------------- *)
\* mutant: the guard is balance > amount
WhereMatches_Strict(bal, amount) == bal > amount

\* mutant: the guard asks for a positive balance, not for a sufficient one
WhereMatches_Positive(bal, amount) == bal > 0

\* WHERE id = :userId AND balance >= CAST(:amount AS NUMERIC)
WhereMatches(bal, amount) == bal >= amount

\* mutant: the amount is added
SetBalance_Added(bal, amount) == bal + amount

\* SET balance = balance - CAST(:amount AS NUMERIC)
SetBalance(bal, amount) == bal - amount

\* transactionHistoryRepository.findOne({ where: { idempotencyKey } })
findOne(k) == {rec \in history : rec.idempotencyKey = k}

\* mutant: the index on the key is not unique
UniqueIndexHit_NotUnique(k) == FALSE

\* @Index(['idempotencyKey'], { unique: true }) against the committed rows
UniqueIndexHit(k) == findOne(k) # {}

\* CreateDateColumn: the store's clock, counted in commits seen so far
Now == Cardinality(history)

Init ==
  /\ balance = [u \in Users |-> InitBalance]
  /\ history = {}
  /\ rowLock = [u \in Users |-> 0]
  /\ keyLock = [k \in Keys |-> 0]
  /\ req = [r \in Reqs |-> NoReq]
  /\ pc = [r \in Reqs |-> "idle"]
  /\ attempt = [r \in Reqs |-> 0]
  /\ written = [r \in Reqs |-> 0]
  /\ saved = [r \in Reqs |-> NoRec]
  /\ seen = [r \in Reqs |-> NoSeen]
  /\ err = [r \in Reqs |-> NoErr]
  /\ result = [r \in Reqs |-> NoResult]
  /\ delayMs = [r \in Reqs |-> 0]

(* ----------------------------- actions -------------------------------- *)
\* TransactionsController.createTransaction -> TransactionsService.createTransaction
\* -> executeWithRetry(operation, attempt = 1)
\* Requests are issued in the order of their names, and user ids and keys
\* are opaque: a request names a stored user or a key either used by an
\* earlier request or the least one not used yet.
Fresh(used, all) == {x \in all : \A y \in all : y < x => y \in used}

UsedUsers == {req[q].userId : q \in {x \in DOMAIN pc : pc[x] # "idle"}} \cap Users

UsedKeys == {req[q].idempotencyKey : q \in {x \in DOMAIN pc : pc[x] # "idle"}}

createTransaction(r, u, a, k) ==
  /\ pc[r] = "idle"
  /\ IF r = 1 THEN TRUE ELSE pc[r - 1] # "idle"
  /\ u \in Users => u \in UsedUsers \cup Fresh(UsedUsers, Users)
  /\ k \in UsedKeys \cup Fresh(UsedKeys, DOMAIN keyLock \ {EmptyKey}) \cup {EmptyKey}
  /\ req' = [req EXCEPT ![r] = [userId |-> u, amount |-> a, idempotencyKey |-> k]]
  /\ attempt' = [attempt EXCEPT ![r] = 1]
  /\ pc' = [pc EXCEPT ![r] = "exists"]
  /\ seen' = [seen EXCEPT ![r] =
       [rec |-> IF findOne(k) = {} THEN NoRec ELSE CHOOSE x \in findOne(k) : TRUE,
        balance |-> IF u \in Users THEN balance[u] ELSE 0,
        alone |-> \A q \in DOMAIN pc : pc[q] \in {"idle", "done"},
        early |-> \A q \in DOMAIN pc : pc[q] # "done"]]
  /\ UNCHANGED <<balance, history, rowLock, keyLock, written, saved, err, result,
                 delayMs>>

\* mutant: a missing user is reported as a business conflict
CheckUserExists_AsConflict(r) ==
  /\ pc[r] = "exists"
  /\ IF req[r].userId \in Users
       THEN /\ pc' = [pc EXCEPT ![r] = "update"]
            /\ UNCHANGED err
       ELSE /\ pc' = [pc EXCEPT ![r] = "failed"]
            /\ err' = [err EXCEPT ![r] = InsufficientFunds]
  /\ UNCHANGED <<balance, history, rowLock, keyLock, req, attempt, written, saved,
                 result, seen, delayMs>>

\* processTransaction, the existence check before the scope
CheckUserExists(r) ==
  /\ pc[r] = "exists"
  /\ IF req[r].userId \in Users
       THEN /\ pc' = [pc EXCEPT ![r] = "update"]
            /\ UNCHANGED err
       ELSE /\ pc' = [pc EXCEPT ![r] = "failed"]
            /\ err' = [err EXCEPT ![r] = NotFound]
  /\ UNCHANGED <<balance, history, rowLock, keyLock, req, attempt, written, saved,
                 result, seen, delayMs>>

\* mutant: the UPDATE runs outside the scope and is committed on its own
ConditionalUpdate_Autocommit(r) ==
  LET u == req[r].userId IN
  /\ \/ pc[r] = "update"
     \/ pc[r] = "wait_row" /\ rowLock[u] = 0
  /\ IF WhereMatches(balance[u], req[r].amount)
       THEN /\ UNCHANGED err
            /\ IF rowLock[u] = 0
                 THEN /\ rowLock' = [rowLock EXCEPT ![u] = r]
                      /\ written' = [written EXCEPT ![r] =
                                       SetBalance(balance[u], req[r].amount)]
                      /\ balance' = [balance EXCEPT ![u] =
                                       SetBalance(balance[u], req[r].amount)]
                      /\ pc' = [pc EXCEPT ![r] = "insert"]
                 ELSE /\ pc' = [pc EXCEPT ![r] = "wait_row"]
                      /\ UNCHANGED <<rowLock, written, balance>>
       ELSE /\ pc' = [pc EXCEPT ![r] = "failed"]
            /\ err' = [err EXCEPT ![r] = InsufficientFunds]
            /\ UNCHANGED <<rowLock, written, balance>>
  /\ UNCHANGED <<history, keyLock, req, attempt, saved, result, seen, delayMs>>

\* mutant: the UPDATE skips a row another scope has locked and reports no
\* row affected
ConditionalUpdate_SkipLocked(r) ==
  LET u == req[r].userId IN
  /\ \/ pc[r] = "update"
     \/ pc[r] = "wait_row" /\ rowLock[u] = 0
  /\ IF WhereMatches(balance[u], req[r].amount) /\ rowLock[u] = 0
       THEN /\ UNCHANGED err
            /\ rowLock' = [rowLock EXCEPT ![u] = r]
            /\ written' = [written EXCEPT ![r] =
                             SetBalance(balance[u], req[r].amount)]
            /\ pc' = [pc EXCEPT ![r] = "insert"]
       ELSE /\ pc' = [pc EXCEPT ![r] = "failed"]
            /\ err' = [err EXCEPT ![r] = InsufficientFunds]
            /\ UNCHANGED <<rowLock, written>>
  /\ UNCHANGED <<balance, history, keyLock, req, attempt, saved, result, seen, delayMs>>

\* the conditional UPDATE of a new SERIALIZABLE scope, or its resumption
\* after the scope that held the row lock rolled back
ConditionalUpdate(r) ==
  LET u == req[r].userId IN
  /\ \/ pc[r] = "update"
     \/ pc[r] = "wait_row" /\ rowLock[u] = 0
  /\ IF WhereMatches(balance[u], req[r].amount)
       THEN /\ UNCHANGED err
            /\ IF rowLock[u] = 0
                 THEN /\ rowLock' = [rowLock EXCEPT ![u] = r]
                      /\ written' = [written EXCEPT ![r] =
                                       SetBalance(balance[u], req[r].amount)]
                      /\ pc' = [pc EXCEPT ![r] = "insert"]
                 ELSE /\ pc' = [pc EXCEPT ![r] = "wait_row"]
                      /\ UNCHANGED <<rowLock, written>>
       ELSE \* affected === 0: ConflictException('Insufficient funds')
            /\ pc' = [pc EXCEPT ![r] = "failed"]
            /\ err' = [err EXCEPT ![r] = InsufficientFunds]
            /\ UNCHANGED <<rowLock, written>>
  /\ UNCHANGED <<balance, history, keyLock, req, attempt, saved, result, seen, delayMs>>

\* mutant: the record is saved through the repository, outside the scope,
\* so it is committed on its own
SaveTransaction_Autocommit(r) ==
  LET k == req[r].idempotencyKey
      rec == TransactionHistory(<<r, attempt[r]>>, req[r].userId, req[r].amount, k, Now) IN
  /\ \/ pc[r] = "insert"
     \/ pc[r] = "wait_key" /\ keyLock[k] = 0
  /\ IF UniqueIndexHit(k)
       THEN /\ pc' = [pc EXCEPT ![r] = "failed"]
            /\ err' = [err EXCEPT ![r] = UniqueViolation]
            /\ UNCHANGED <<keyLock, saved, history>>
       ELSE /\ keyLock' = [keyLock EXCEPT ![k] = r]
            /\ saved' = [saved EXCEPT ![r] = rec]
            /\ history' = history \cup {rec}
            /\ pc' = [pc EXCEPT ![r] = "commit"]
            /\ UNCHANGED err
  /\ UNCHANGED <<balance, rowLock, req, attempt, written, result, seen, delayMs>>

\* manager.create + manager.save: the INSERT against the unique index,
\* or its resumption after the scope that held the key entry rolled back
SaveTransaction(r) ==
  LET k == req[r].idempotencyKey IN
  /\ \/ pc[r] = "insert"
     \/ pc[r] = "wait_key" /\ keyLock[k] = 0
  /\ IF UniqueIndexHit(k)
       THEN /\ pc' = [pc EXCEPT ![r] = "failed"]
            /\ err' = [err EXCEPT ![r] = UniqueViolation]
            /\ UNCHANGED <<keyLock, saved>>
       ELSE IF keyLock[k] # 0
              THEN /\ pc' = [pc EXCEPT ![r] = "wait_key"]
                   /\ UNCHANGED <<keyLock, saved, err>>
              ELSE /\ keyLock' = [keyLock EXCEPT ![k] = r]
                   /\ saved' = [saved EXCEPT ![r] =
                        TransactionHistory(<<r, attempt[r]>>, req[r].userId,
                                           req[r].amount, k, Now)]
                   /\ pc' = [pc EXCEPT ![r] = "commit"]
                   /\ UNCHANGED err
  /\ UNCHANGED <<balance, history, rowLock, req, attempt, written, result, seen, delayMs>>

\* what the commit of r's scope raises in the statement q is blocked in
Woken(r, q) ==
  IF q # r /\ pc[q] = "wait_row" /\ req[q].userId = req[r].userId
    THEN SerializationFailure
  ELSE IF q # r /\ pc[q] = "wait_key" /\ req[q].idempotencyKey = req[r].idempotencyKey
    THEN UniqueViolation
  ELSE NoErr

\* mutant: the history keeps one row per user, the save overwrites the
\* record the user had
Commit_Overwrite(r) ==
  LET u == req[r].userId
      k == req[r].idempotencyKey IN
  /\ pc[r] = "commit"
  /\ balance' = [balance EXCEPT ![u] = written[r]]
  /\ history' = {rec \in history : rec.userId # u} \cup {saved[r]}
  /\ rowLock' = [rowLock EXCEPT ![u] = 0]
  /\ keyLock' = [keyLock EXCEPT ![k] = 0]
  /\ pc' = [q \in DOMAIN pc |->
              IF q = r THEN "done"
              ELSE IF Woken(r, q) # NoErr THEN "failed" ELSE pc[q]]
  /\ err' = [q \in DOMAIN pc |-> IF Woken(r, q) # NoErr THEN Woken(r, q) ELSE err[q]]
  /\ result' = [result EXCEPT ![r] = Success(saved[r])]
  /\ written' = [written EXCEPT ![r] = 0]
  /\ saved' = [saved EXCEPT ![r] = NoRec]
  /\ UNCHANGED <<req, attempt, seen, delayMs>>

\* mutant: the WHERE of the UPDATE names no id, every row that covers the
\* amount is decremented
Commit_AllRows(r) ==
  LET u == req[r].userId
      k == req[r].idempotencyKey IN
  /\ pc[r] = "commit"
  /\ balance' = [x \in DOMAIN balance |->
                   IF x = u THEN written[r]
                   ELSE IF WhereMatches(balance[x], req[r].amount)
                     THEN SetBalance(balance[x], req[r].amount)
                   ELSE balance[x]]
  /\ history' = history \cup {saved[r]}
  /\ rowLock' = [rowLock EXCEPT ![u] = 0]
  /\ keyLock' = [keyLock EXCEPT ![k] = 0]
  /\ pc' = [q \in DOMAIN pc |->
              IF q = r THEN "done"
              ELSE IF Woken(r, q) # NoErr THEN "failed" ELSE pc[q]]
  /\ err' = [q \in DOMAIN pc |-> IF Woken(r, q) # NoErr THEN Woken(r, q) ELSE err[q]]
  /\ result' = [result EXCEPT ![r] = Success(saved[r])]
  /\ written' = [written EXCEPT ![r] = 0]
  /\ saved' = [saved EXCEPT ![r] = NoRec]
  /\ UNCHANGED <<req, attempt, seen, delayMs>>

\* the scope commits: balance and record become visible together, the
\* locks are released, the blocked statements of other scopes fail
Commit(r) ==
  LET u == req[r].userId
      k == req[r].idempotencyKey IN
  /\ pc[r] = "commit"
  /\ balance' = [balance EXCEPT ![u] = written[r]]
  /\ history' = history \cup {saved[r]}
  /\ rowLock' = [rowLock EXCEPT ![u] = 0]
  /\ keyLock' = [keyLock EXCEPT ![k] = 0]
  /\ pc' = [q \in DOMAIN pc |->
              IF q = r THEN "done"
              ELSE IF Woken(r, q) # NoErr THEN "failed" ELSE pc[q]]
  /\ err' = [q \in DOMAIN pc |-> IF Woken(r, q) # NoErr THEN Woken(r, q) ELSE err[q]]
  /\ result' = [result EXCEPT ![r] = Success(saved[r])]
  /\ written' = [written EXCEPT ![r] = 0]
  /\ saved' = [saved EXCEPT ![r] = NoRec]
  /\ UNCHANGED <<req, attempt, seen, delayMs>>

\* mutant: the locks of a failed scope are not released
Released_Kept(lock, r) == lock

\* rollback of r's failed scope: its locks and its unsaved record go
Released(lock, r) == [x \in DOMAIN lock |-> IF lock[x] = r THEN 0 ELSE lock[x]]

\* mutant: what the lookup returns is returned unchecked
CatchDuplicate_Unchecked(r) ==
  /\ pc[r] = "failed"
  /\ err[r].qfe /\ isIdempotencyError(err[r])
  /\ rowLock' = Released(rowLock, r)
  /\ keyLock' = Released(keyLock, r)
  /\ written' = [written EXCEPT ![r] = 0]
  /\ saved' = [saved EXCEPT ![r] = NoRec]
  /\ pc' = [pc EXCEPT ![r] = "done"]
  /\ err' = [err EXCEPT ![r] = NoErr]
  /\ result' = [result EXCEPT ![r] =
       IF findOne(req[r].idempotencyKey) = {}
         THEN Success(NoRec)
         ELSE Success(CHOOSE rec \in findOne(req[r].idempotencyKey) : TRUE)]
  /\ UNCHANGED <<balance, history, req, attempt, seen, delayMs>>

\* catch of processTransaction, duplicate-key branch (lines 131-144)
CatchDuplicate(r) ==
  /\ pc[r] = "failed"
  /\ err[r].qfe /\ isIdempotencyError(err[r])
  /\ rowLock' = Released(rowLock, r)
  /\ keyLock' = Released(keyLock, r)
  /\ written' = [written EXCEPT ![r] = 0]
  /\ saved' = [saved EXCEPT ![r] = NoRec]
  /\ IF findOne(req[r].idempotencyKey) = {}
       THEN /\ pc' = [pc EXCEPT ![r] = "failed"]
            /\ err' = [err EXCEPT ![r] = DuplicateNotFound]
            /\ UNCHANGED result
       ELSE /\ pc' = [pc EXCEPT ![r] = "done"]
            /\ err' = [err EXCEPT ![r] = NoErr]
            /\ result' = [result EXCEPT ![r] =
                 Success(CHOOSE rec \in findOne(req[r].idempotencyKey) : TRUE)]
  /\ UNCHANGED <<balance, history, req, attempt, seen, delayMs>>

\* mutant: the backoff delay is taken inside the failed scope, which is
\* rolled back only when the retries end
CatchRethrow_DelayInScope(r) ==
  /\ pc[r] = "failed"
  /\ ~(err[r].qfe /\ isIdempotencyError(err[r]))
  /\ IF isRetryableError(err[r]) /\ attempt[r] < MAX_RETRIES
       THEN /\ pc' = [pc EXCEPT ![r] = "delay"]
            /\ \E j \in Randoms :
                 delayMs' = [delayMs EXCEPT ![r] =
                               baseDelay(attempt[r]) + jitter(attempt[r], j)]
            /\ UNCHANGED <<result, rowLock, keyLock, written, saved>>
       ELSE /\ pc' = [pc EXCEPT ![r] = "done"]
            /\ result' = [result EXCEPT ![r] = Rejected(err[r])]
            /\ rowLock' = Released(rowLock, r)
            /\ keyLock' = Released(keyLock, r)
            /\ written' = [written EXCEPT ![r] = 0]
            /\ saved' = [saved EXCEPT ![r] = NoRec]
            /\ UNCHANGED delayMs
  /\ err' = [err EXCEPT ![r] = NoErr]
  /\ UNCHANGED <<balance, history, req, attempt, seen>>

\* mutant: exhausted retries surface as a serialization failure of their own
CatchRethrow_Normalised(r) ==
  /\ pc[r] = "failed"
  /\ ~(err[r].qfe /\ isIdempotencyError(err[r]))
  /\ rowLock' = Released(rowLock, r)
  /\ keyLock' = Released(keyLock, r)
  /\ written' = [written EXCEPT ![r] = 0]
  /\ saved' = [saved EXCEPT ![r] = NoRec]
  /\ IF isRetryableError(err[r]) /\ attempt[r] < MAX_RETRIES
       THEN /\ pc' = [pc EXCEPT ![r] = "delay"]
            /\ \E j \in Randoms :
                 delayMs' = [delayMs EXCEPT ![r] =
                               baseDelay(attempt[r]) + jitter(attempt[r], j)]
            /\ UNCHANGED result
       ELSE /\ pc' = [pc EXCEPT ![r] = "done"]
            /\ result' = [result EXCEPT ![r] =
                 IF isRetryableError(err[r])
                   THEN Rejected(SerializationFailure) ELSE Rejected(err[r])]
            /\ UNCHANGED delayMs
  /\ err' = [err EXCEPT ![r] = NoErr]
  /\ UNCHANGED <<balance, history, req, attempt, seen>>

\* mutant: every failure is retried below the ceiling
CatchRethrow_RetryAll(r) ==
  /\ pc[r] = "failed"
  /\ ~(err[r].qfe /\ isIdempotencyError(err[r]))
  /\ rowLock' = Released(rowLock, r)
  /\ keyLock' = Released(keyLock, r)
  /\ written' = [written EXCEPT ![r] = 0]
  /\ saved' = [saved EXCEPT ![r] = NoRec]
  /\ IF attempt[r] < MAX_RETRIES
       THEN /\ pc' = [pc EXCEPT ![r] = "delay"]
            /\ \E j \in Randoms :
                 delayMs' = [delayMs EXCEPT ![r] =
                               baseDelay(attempt[r]) + jitter(attempt[r], j)]
            /\ UNCHANGED result
       ELSE /\ pc' = [pc EXCEPT ![r] = "done"]
            /\ result' = [result EXCEPT ![r] = Rejected(err[r])]
            /\ UNCHANGED delayMs
  /\ err' = [err EXCEPT ![r] = NoErr]
  /\ UNCHANGED <<balance, history, req, attempt, seen>>

\* mutant: a retryable failure is retried whatever the attempt count
CatchRethrow_NoCeiling(r) ==
  /\ pc[r] = "failed"
  /\ ~(err[r].qfe /\ isIdempotencyError(err[r]))
  /\ rowLock' = Released(rowLock, r)
  /\ keyLock' = Released(keyLock, r)
  /\ written' = [written EXCEPT ![r] = 0]
  /\ saved' = [saved EXCEPT ![r] = NoRec]
  /\ IF isRetryableError(err[r])
       THEN /\ pc' = [pc EXCEPT ![r] = "delay"]
            /\ \E j \in Randoms :
                 delayMs' = [delayMs EXCEPT ![r] =
                               baseDelay(attempt[r]) + jitter(attempt[r], j)]
            /\ UNCHANGED result
       ELSE /\ pc' = [pc EXCEPT ![r] = "done"]
            /\ result' = [result EXCEPT ![r] = Rejected(err[r])]
            /\ UNCHANGED delayMs
  /\ err' = [err EXCEPT ![r] = NoErr]
  /\ UNCHANGED <<balance, history, req, attempt, seen>>

\* mutant: the retry ceiling is applied one attempt early
CatchRethrow_OffByOne(r) ==
  /\ pc[r] = "failed"
  /\ ~(err[r].qfe /\ isIdempotencyError(err[r]))
  /\ rowLock' = Released(rowLock, r)
  /\ keyLock' = Released(keyLock, r)
  /\ written' = [written EXCEPT ![r] = 0]
  /\ saved' = [saved EXCEPT ![r] = NoRec]
  /\ IF isRetryableError(err[r]) /\ attempt[r] < MAX_RETRIES - 1
       THEN /\ pc' = [pc EXCEPT ![r] = "delay"]
            /\ \E j \in Randoms :
                 delayMs' = [delayMs EXCEPT ![r] =
                               baseDelay(attempt[r]) + jitter(attempt[r], j)]
            /\ UNCHANGED result
       ELSE /\ pc' = [pc EXCEPT ![r] = "done"]
            /\ result' = [result EXCEPT ![r] = Rejected(err[r])]
            /\ UNCHANGED delayMs
  /\ err' = [err EXCEPT ![r] = NoErr]
  /\ UNCHANGED <<balance, history, req, attempt, seen>>

\* mutant: the UPDATE of a failed scope is not undone by its rollback
CatchRethrow_KeepsUpdate(r) ==
  /\ pc[r] = "failed"
  /\ ~(err[r].qfe /\ isIdempotencyError(err[r]))
  /\ balance' = [u \in DOMAIN balance |->
                   IF rowLock[u] = r THEN written[r] ELSE balance[u]]
  /\ rowLock' = Released(rowLock, r)
  /\ keyLock' = Released(keyLock, r)
  /\ written' = [written EXCEPT ![r] = 0]
  /\ saved' = [saved EXCEPT ![r] = NoRec]
  /\ IF isRetryableError(err[r]) /\ attempt[r] < MAX_RETRIES
       THEN /\ pc' = [pc EXCEPT ![r] = "delay"]
            /\ \E j \in Randoms :
                 delayMs' = [delayMs EXCEPT ![r] =
                               baseDelay(attempt[r]) + jitter(attempt[r], j)]
            /\ UNCHANGED result
       ELSE /\ pc' = [pc EXCEPT ![r] = "done"]
            /\ result' = [result EXCEPT ![r] = Rejected(err[r])]
            /\ UNCHANGED delayMs
  /\ err' = [err EXCEPT ![r] = NoErr]
  /\ UNCHANGED <<history, req, attempt, seen>>

\* catch of processTransaction rethrows (line 147), or the exception was
\* thrown outside its try; catch of executeWithRetry (lines 53-63) retries
\* or rethrows
CatchRethrow(r) ==
  /\ pc[r] = "failed"
  /\ ~(err[r].qfe /\ isIdempotencyError(err[r]))
  /\ rowLock' = Released(rowLock, r)
  /\ keyLock' = Released(keyLock, r)
  /\ written' = [written EXCEPT ![r] = 0]
  /\ saved' = [saved EXCEPT ![r] = NoRec]
  /\ IF isRetryableError(err[r]) /\ attempt[r] < MAX_RETRIES
       THEN /\ pc' = [pc EXCEPT ![r] = "delay"]
            /\ \E j \in Randoms :
                 delayMs' = [delayMs EXCEPT ![r] =
                               baseDelay(attempt[r]) + jitter(attempt[r], j)]
            /\ UNCHANGED result
       ELSE /\ pc' = [pc EXCEPT ![r] = "done"]
            /\ result' = [result EXCEPT ![r] = Rejected(err[r])]
            /\ UNCHANGED delayMs
  /\ err' = [err EXCEPT ![r] = NoErr]
  /\ UNCHANGED <<balance, history, req, attempt, seen>>

\* the backoff delay elapses: executeWithRetry(operation, attempt + 1)
DelayElapsed(r) ==
  /\ pc[r] = "delay"
  /\ attempt' = [attempt EXCEPT ![r] = attempt[r] + 1]
  /\ pc' = [pc EXCEPT ![r] = "exists"]
  /\ delayMs' = [delayMs EXCEPT ![r] = 0]
  /\ UNCHANGED <<balance, history, rowLock, keyLock, req, written, saved, err,
                 result, seen>>

\* the store aborts a statement of r's open scope: a serialization failure
\* it detects on its own (retryable) or any other query failure (fatal)
StorageFaults == {SerializationFailure, OtherQueryFailure}

StorageFault(r, e) ==
  /\ pc[r] \in {"update", "wait_row", "insert", "wait_key", "commit"}
  /\ pc' = [pc EXCEPT ![r] = "failed"]
  /\ err' = [err EXCEPT ![r] = e]
  /\ UNCHANGED <<balance, history, rowLock, keyLock, req, attempt, written, saved,
                 result, seen, delayMs>>

Next ==
  \/ \E r \in Reqs, u \in UserIds, a \in Amounts, k \in Keys : createTransaction(r, u, a, k)
  \/ \E r \in Reqs : CheckUserExists(r)
  \/ \E r \in Reqs : ConditionalUpdate(r)
  \/ \E r \in Reqs : SaveTransaction(r)
  \/ \E r \in Reqs : Commit(r)
  \/ \E r \in Reqs : CatchDuplicate(r)
  \/ \E r \in Reqs : CatchRethrow(r)
  \/ \E r \in Reqs : DelayElapsed(r)

Spec == Init /\ [][Next]_vars

\* The same program against a store that may also abort an open scope on
\* its own.  The aborts fall on the scopes of the request issued first, any
\* number of times.
NextFaults ==
  \/ Next
  \/ \E e \in StorageFaults : StorageFault(1, e)

SpecFaults == Init /\ [][NextFaults]_vars

\* The event loop runs every continuation that is ready and the store
\* completes every statement that waits for nothing: each step of a request
\* that stays possible is eventually taken.  Nothing obliges a caller to
\* issue a request or the store to abort a scope.
Fairness ==
  \A r \in Reqs :
    /\ WF_vars(CheckUserExists(r))
    /\ WF_vars(ConditionalUpdate(r))
    /\ WF_vars(SaveTransaction(r))
    /\ WF_vars(Commit(r))
    /\ WF_vars(CatchDuplicate(r))
    /\ WF_vars(CatchRethrow(r))
    /\ WF_vars(DelayElapsed(r))

\* The program under this scheduling, against the store that may abort the
\* scopes of the request issued first; every request asks for all of the
\* initial balance but one unit.
NextLive ==
  \/ \E r \in Reqs, u \in UserIds, k \in Keys :
       createTransaction(r, u, InitBalance - 1, k)
  \/ \E r \in Reqs : CheckUserExists(r)
  \/ \E r \in Reqs : ConditionalUpdate(r)
  \/ \E r \in Reqs : SaveTransaction(r)
  \/ \E r \in Reqs : Commit(r)
  \/ \E r \in Reqs : CatchDuplicate(r)
  \/ \E r \in Reqs : CatchRethrow(r)
  \/ \E r \in Reqs : DelayElapsed(r)
  \/ \E e \in StorageFaults : StorageFault(1, e)

SpecLive == Init /\ [][NextLive]_vars /\ Fairness

\* every signature a failure of a statement can carry
Signatures ==
  [qfe : BOOLEAN, code : {"40001", "40P01", "23505", "other"}, idem : BOOLEAN,
   msg : BOOLEAN]

\* The same program against a store whose statements may fail with any
\* signature.  The failures fall on the scopes of the request issued first,
\* any number of times.  All requests name the first user, or, the request
\* issued first, no user.
NextErrors ==
  \/ \E r \in Reqs, u \in UserIds, a \in Amounts, k \in Keys :
       /\ u = 1 \/ (r = 1 /\ u \notin Users)
       /\ createTransaction(r, u, a, k)
  \/ \E r \in Reqs : CheckUserExists(r)
  \/ \E r \in Reqs : ConditionalUpdate(r)
  \/ \E r \in Reqs : SaveTransaction(r)
  \/ \E r \in Reqs : Commit(r)
  \/ \E r \in Reqs : CatchDuplicate(r)
  \/ \E r \in Reqs : CatchRethrow(r)
  \/ \E r \in Reqs : DelayElapsed(r)
  \/ \E e \in Signatures : StorageFault(1, e)

SpecErrors == Init /\ [][NextErrors]_vars

\* a burst: up to one more request than executeWithRetry has attempts, all
\* issued at once against one account that covers them all, each with an
\* amount of one unit and its own key
BurstSizes == 1..(MAX_RETRIES + 1)

InitBurst ==
  \E n \in BurstSizes :
    /\ balance = [u \in Users |-> IF u = 1 THEN n ELSE InitBalance]
    /\ history = {}
    /\ rowLock = [u \in Users |-> 0]
    /\ keyLock = [k \in 1..n |-> 0]
    /\ req = [r \in 1..n |-> [userId |-> 1, amount |-> 1, idempotencyKey |-> r]]
    /\ pc = [r \in 1..n |-> "exists"]
    /\ attempt = [r \in 1..n |-> 1]
    /\ written = [r \in 1..n |-> 0]
    /\ saved = [r \in 1..n |-> NoRec]
    /\ err = [r \in 1..n |-> NoErr]
    /\ result = [r \in 1..n |-> NoResult]
    /\ delayMs = [r \in 1..n |-> 0]
    /\ seen = [r \in 1..n |->
                 [rec |-> NoRec, balance |-> n, alone |-> n = 1, early |-> TRUE]]

\* The requests of a burst differ in their names only (request r carries
\* key r): of the requests that stand at one position with one attempt
\* count, the one with the least name moves first.
Leads(r) ==
  \A q \in DOMAIN pc :
    q < r => <<pc[q], attempt[q], err[q]>> # <<pc[r], attempt[r], err[r]>>

\* The length of a delay orders nothing here: the burst takes every delay
\* without jitter.
NoJitter(r) == delayMs'[r] \in {0, baseDelay(attempt[r])}

NextBurst ==
  \/ \E r \in DOMAIN pc : Leads(r) /\ CheckUserExists(r)
  \/ \E r \in DOMAIN pc : Leads(r) /\ ConditionalUpdate(r)
  \/ \E r \in DOMAIN pc : Leads(r) /\ SaveTransaction(r)
  \/ \E r \in DOMAIN pc : Leads(r) /\ Commit(r)
  \/ \E r \in DOMAIN pc : Leads(r) /\ CatchRethrow(r) /\ NoJitter(r)
  \/ \E r \in DOMAIN pc : Leads(r) /\ DelayElapsed(r)

SpecBurst == InitBurst /\ [][NextBurst]_vars

\* mutant: only a header that was not sent is refused
MissingKey_UndefinedOnly(k) == k = AbsentKey

\* !idempotencyKey
MissingKey(k) == k = AbsentKey \/ k = EmptyKey

\* TransactionsController.createTransaction: POST /users/:userId/transactions
Post(r, u, a, k) ==
  IF MissingKey(k)
    THEN /\ pc[r] = "idle"
         /\ IF r = 1 THEN TRUE ELSE pc[r - 1] # "idle"
         /\ u \in Users => u \in UsedUsers \cup Fresh(UsedUsers, Users)
         /\ req' = [req EXCEPT ![r] = [userId |-> u, amount |-> a, idempotencyKey |-> k]]
         /\ pc' = [pc EXCEPT ![r] = "done"]
         /\ result' = [result EXCEPT ![r] = Failure("bad_request", BadRequest)]
         /\ UNCHANGED <<balance, history, rowLock, keyLock, attempt, written, saved,
                        err, seen, delayMs>>
    ELSE createTransaction(r, u, a, k)

\* the service behind its controller; the store can hold the empty string
\* as a key
InitHttp ==
  /\ balance = [u \in Users |-> InitBalance]
  /\ history = {}
  /\ rowLock = [u \in Users |-> 0]
  /\ keyLock = [k \in Keys \cup {EmptyKey} |-> 0]
  /\ req = [r \in Reqs |-> NoReq]
  /\ pc = [r \in Reqs |-> "idle"]
  /\ attempt = [r \in Reqs |-> 0]
  /\ written = [r \in Reqs |-> 0]
  /\ saved = [r \in Reqs |-> NoRec]
  /\ seen = [r \in Reqs |-> NoSeen]
  /\ err = [r \in Reqs |-> NoErr]
  /\ result = [r \in Reqs |-> NoResult]
  /\ delayMs = [r \in Reqs |-> 0]

NextHttp ==
  \/ \E r \in Reqs, u \in UserIds, a \in Amounts, k \in Keys \cup {EmptyKey, AbsentKey} :
       Post(r, u, a, k)
  \/ \E r \in Reqs : CheckUserExists(r)
  \/ \E r \in Reqs : ConditionalUpdate(r)
  \/ \E r \in Reqs : SaveTransaction(r)
  \/ \E r \in Reqs : Commit(r)
  \/ \E r \in Reqs : CatchDuplicate(r)
  \/ \E r \in Reqs : CatchRethrow(r)
  \/ \E r \in Reqs : DelayElapsed(r)

SpecHttp == InitHttp /\ [][NextHttp]_vars

\* requests issued one after another: a request is issued only when no
\* other one is in flight.  One more request than in Spec, and a key for
\* each of them.
SeqLen == NumReqs + 1

InitSeq ==
  /\ balance = [u \in Users |-> InitBalance]
  /\ history = {}
  /\ rowLock = [u \in Users |-> 0]
  /\ keyLock = [k \in 1..SeqLen |-> 0]
  /\ req = [r \in 1..SeqLen |-> NoReq]
  /\ pc = [r \in 1..SeqLen |-> "idle"]
  /\ attempt = [r \in 1..SeqLen |-> 0]
  /\ written = [r \in 1..SeqLen |-> 0]
  /\ saved = [r \in 1..SeqLen |-> NoRec]
  /\ seen = [r \in 1..SeqLen |-> NoSeen]
  /\ err = [r \in 1..SeqLen |-> NoErr]
  /\ result = [r \in 1..SeqLen |-> NoResult]
  /\ delayMs = [r \in 1..SeqLen |-> 0]

NextSeq ==
  \/ \E r \in DOMAIN pc, u \in UserIds, a \in Amounts, k \in DOMAIN keyLock :
       /\ \A q \in DOMAIN pc : pc[q] \in {"idle", "done"}
       /\ createTransaction(r, u, a, k)
  \/ \E r \in DOMAIN pc : CheckUserExists(r)
  \/ \E r \in DOMAIN pc : ConditionalUpdate(r)
  \/ \E r \in DOMAIN pc : SaveTransaction(r)
  \/ \E r \in DOMAIN pc : Commit(r)
  \/ \E r \in DOMAIN pc : CatchDuplicate(r)
  \/ \E r \in DOMAIN pc : CatchRethrow(r)

SpecSeq == InitSeq /\ [][NextSeq]_vars

\* The program against the store that may abort the scopes of the request
\* issued first, the requests after the first being issued while the first
\* is in a backoff delay.
NextDelay ==
  \/ \E r \in Reqs, u \in UserIds, a \in Amounts, k \in Keys :
       /\ r = 1 \/ pc[1] = "delay"
       /\ createTransaction(r, u, a, k)
  \/ \E r \in Reqs : CheckUserExists(r)
  \/ \E r \in Reqs : ConditionalUpdate(r)
  \/ \E r \in Reqs : SaveTransaction(r)
  \/ \E r \in Reqs : Commit(r)
  \/ \E r \in Reqs : CatchDuplicate(r)
  \/ \E r \in Reqs : CatchRethrow(r)
  \/ \E r \in Reqs : DelayElapsed(r)
  \/ \E e \in StorageFaults : StorageFault(1, e)

SpecDelay == Init /\ [][NextDelay]_vars

(* ============================== claims ================================ *)
Issued == {r \in DOMAIN pc : pc[r] # "idle"}

Debits(u) == {rec \in history : rec.userId = u}

RECURSIVE SumAmounts(_)
SumAmounts(S) ==
  IF S = {} THEN 0
  ELSE LET x == CHOOSE y \in S : TRUE IN x.amount + SumAmounts(S \ {x})

\* C1: in every reachable state, whatever the interleaving of the requests
\* and of the store's aborts and the retries, every user's committed
\* balance is at least 0.
C1_BalanceNonNegative == \A u \in Users : balance[u] >= 0

\* a request lost the race for the row, retried, and was refused because
\* the balance the winner left does not cover its amount
C1_Witness ==
  \E r \in Issued, q \in Issued :
    /\ result[r].kind = "success"
    /\ result[q].kind = "insufficient_funds"
    /\ attempt[q] >= 2
    /\ req[q].userId = req[r].userId
    /\ balance[req[q].userId] < req[q].amount

\* C2: in every reachable state, every user's committed balance is the
\* initial balance minus the sum of the amounts of the committed records
\* with that userId: no decrement without its record, no record without
\* its decrement.
C2_LedgerMatchesHistory ==
  \A u \in Users : balance[u] = InitBalance - SumAmounts(Debits(u))

\* a request whose first scope was rolled back committed in a later attempt
C2_Witness ==
  \E r \in Issued :
    /\ result[r].kind = "success"
    /\ attempt[r] >= 2
    /\ result[r].rec \in history
    /\ result[r].rec.id[1] = r
    /\ balance[req[r].userId] < InitBalance

\* C3: in every reachable state the history holds at most one record per
\* idempotency key, counted across all users.
C3_OneRecordPerKey ==
  \A x \in history, y \in history :
    x.idempotencyKey = y.idempotencyKey => x = y

\* two requests for different users carried the same key and both ended;
\* one record holds the key
C3_Witness ==
  \E r \in Issued, q \in Issued :
    /\ req[r].idempotencyKey = req[q].idempotencyKey
    /\ req[r].userId \in Users /\ req[q].userId \in Users
    /\ req[r].userId # req[q].userId
    /\ pc[r] = "done" /\ pc[q] = "done"
    /\ Cardinality(findOne(req[r].idempotencyKey)) = 1

\* the requests issued so far all carry one userId of a stored user, one
\* amount and one key
Identical ==
  /\ Issued # {}
  /\ \A r \in Issued, q \in Issued : req[r] = req[q]
  /\ \A r \in Issued : req[r].userId \in Users

AllDone == \A r \in Issued : pc[r] = "done"

Succeeded == {r \in Issued : result[r].kind = "success"}

\* C4: once a request (userId, DEBIT, amount, key) has committed its
\* record, every request issued later with the same userId, action, amount
\* and key ends in success carrying that record (same id, same ts),
\* whatever the amount and the balance at replay time.
C4_SequentialReplay ==
  \A p \in Issued :
    ( /\ pc[p] = "done"
      /\ seen[p].rec # NoRec
      /\ seen[p].rec.userId = req[p].userId
      /\ seen[p].rec.amount = req[p].amount )
    => result[p] = Success(seen[p].rec)

\* C5: identical requests (same userId, amount, key), the first of them
\* affordable, leave exactly one record for the key and one decrement of
\* the amount once they have all ended; and every step that changes a
\* balance or the history is the commit of a request whose key had no
\* record, adds exactly that request's record and takes its amount once,
\* so that a submission after the committing one changes nothing.
C5_Once ==
  ( /\ Identical
    /\ AllDone
    /\ \A r \in Issued : req[r].amount <= InitBalance )
  => \A r \in Issued :
       /\ Cardinality(findOne(req[r].idempotencyKey)) = 1
       /\ history = findOne(req[r].idempotencyKey)
       /\ balance[req[r].userId] = InitBalance - req[r].amount

C5_Step ==
  (balance' # balance \/ history' # history)
  => \E r \in DOMAIN pc :
       /\ pc[r] = "commit" /\ pc'[r] = "done"
       /\ findOne(req[r].idempotencyKey) = {}
       /\ result'[r].kind = "success"
       /\ result'[r].rec.idempotencyKey = req[r].idempotencyKey
       /\ result'[r].rec \notin history
       /\ history' = history \cup {result'[r].rec}
       /\ balance' = [balance EXCEPT ![req[r].userId] = @ - req[r].amount]

C5_ExactlyOnce == []C5_Once /\ [][C5_Step]_vars

\* identical requests have all ended and one of them was answered with the
\* record another one committed
C5_Witness ==
  /\ Identical
  /\ AllDone
  /\ Cardinality(Issued) >= 2
  /\ \E r \in Issued :
       /\ result[r].kind = "success"
       /\ result[r].rec.id[1] # r
       /\ balance[req[r].userId] = InitBalance - req[r].amount

\* C6: among N concurrent requests with the same key, user and amount,
\* exactly one commits a new record and every other one ends in success
\* with that same record; none ends with an error.
C6_ConcurrentSameKey ==
  ( /\ Identical
    /\ AllDone
    /\ Cardinality(Issued) >= 2
    /\ \A r \in Issued : seen[r].early )
  => \E rec \in history :
       /\ history = {rec}
       /\ \A r \in Issued : result[r] = Success(rec)

\* the kinds of failure C7 is about
FailureKinds == {"insufficient_funds", "storage_error"}

\* the records the scopes of request r committed
RecordsOf(r) == {rec \in history : rec.id[1] = r}

\* C7: a request that ended with insufficient funds, with a fatal storage
\* error or with its retries exhausted has created no record, and its
\* user's balance is what the records of the other requests account for;
\* the step that ends it so changes neither a balance nor the history.
C7_NoTrace ==
  \A r \in Issued :
    (pc[r] = "done" /\ result[r].kind \in FailureKinds)
    => /\ RecordsOf(r) = {}
       /\ balance[req[r].userId] =
            InitBalance - SumAmounts(Debits(req[r].userId) \ RecordsOf(r))

C7_Step ==
  \A r \in DOMAIN pc :
    (pc[r] # "done" /\ pc'[r] = "done" /\ result'[r].kind \in FailureKinds)
    => /\ balance' = balance
       /\ history' = history

C7_FailureIsAtomic == []C7_NoTrace /\ [][C7_Step]_vars

\* a request gave up after its fifth scope was aborted, another one
\* committed meanwhile
C7_Witness ==
  \E r \in Issued, q \in Issued :
    /\ result[r].kind = "storage_error"
    /\ result[r].error = SerializationFailure
    /\ attempt[r] = MAX_RETRIES
    /\ result[q].kind = "success"
    /\ req[q].userId = req[r].userId

\* two requests, issued while the other was in flight, with distinct keys
\* against one account, each of an amount a with balance/2 < a <= balance
DoubleSpend(r, q) ==
  /\ Issued = {r, q} /\ r # q
  /\ req[r].userId = req[q].userId /\ req[r].userId \in Users
  /\ req[r].amount = req[q].amount
  /\ req[r].idempotencyKey # req[q].idempotencyKey
  /\ 2 * req[r].amount > InitBalance /\ req[r].amount <= InitBalance
  /\ seen[r].early /\ seen[q].early

Min(a, b) == IF a < b THEN a ELSE b

Solo(r) ==
  /\ pc[r] = "done"
  /\ seen[r].alone
  /\ \A q \in Issued : q <= r
  /\ req[r].userId \in Users

C10_Exceeds ==
  \A r \in Issued :
    (Solo(r) /\ req[r].amount = seen[r].balance + 1)
    => /\ result[r].kind = "insufficient_funds"
       /\ balance[req[r].userId] = seen[r].balance
       /\ RecordsOf(r) = {}

C10_Step ==
  \A r \in DOMAIN pc :
    ( /\ pc[r] = "update"
      /\ pc'[r] # "update"
      /\ \A q \in DOMAIN pc : q # r => pc[q] \in {"idle", "done"} )
    => /\ req[r].amount = balance[req[r].userId] => pc'[r] = "insert"
       /\ req[r].amount = balance[req[r].userId] + 1 =>
            /\ pc'[r] = "failed"
            /\ err'[r] = InsufficientFunds
            /\ balance' = balance
            /\ history' = history

\* C10: with no concurrent request, a debit whose amount equals the
\* current balance succeeds and leaves balance 0; one whose amount exceeds
\* it by the smallest unit fails with insufficient funds and leaves
\* balance and history unchanged.
C10_Boundary ==
  /\ [](\A r \in Issued :
          (Solo(r) /\ req[r].amount = seen[r].balance)
          => /\ result[r].kind = "success"
             /\ balance[req[r].userId] = 0)
  /\ []C10_Exceeds
  /\ [][C10_Step]_vars

\* C10 as amended: the same, for a debit whose key no record holds when
\* it is issued.
C10_BoundaryFreshKey ==
  /\ [](\A r \in Issued :
          (Solo(r) /\ req[r].amount = seen[r].balance /\ seen[r].rec = NoRec)
          => /\ result[r].kind = "success"
             /\ result[r].rec \in history
             /\ result[r].rec.id[1] = r
             /\ balance[req[r].userId] = 0)
  /\ []C10_Exceeds
  /\ [][C10_Step]_vars

\* a debit of exactly the balance an earlier debit left ran alone and
\* emptied the account
C10_Witness ==
  \E r \in Issued :
    /\ Solo(r)
    /\ seen[r].rec = NoRec
    /\ req[r].amount = seen[r].balance
    /\ seen[r].balance < InitBalance
    /\ result[r].kind = "success"
    /\ balance[req[r].userId] = 0

(* ------------------------------- C11 ---------------------------------- *)
\* request r names a userId that no row of the users table has
UnknownUser(r) == r \in Issued /\ req[r].userId \notin Users

C11_NoScope ==
  \A r \in DOMAIN pc :
    UnknownUser(r)
    => /\ attempt[r] = 1
       /\ pc[r] \in {"exists", "failed", "done"}
       /\ pc[r] = "failed" => err[r] = NotFound
       /\ pc[r] = "done" => result[r] = Rejected(NotFound)
       /\ \A u \in DOMAIN rowLock : rowLock[u] # r
       /\ \A k \in DOMAIN keyLock : keyLock[k] # r
       /\ written[r] = 0 /\ saved[r] = NoRec
       /\ RecordsOf(r) = {}

C11_Step ==
  \A r \in DOMAIN pc :
    (req'[r].userId \notin Users /\ pc'[r] # pc[r])
    => /\ balance' = balance
       /\ history' = history
       /\ rowLock' = rowLock
       /\ keyLock' = keyLock

\* C11: a request whose userId names no user ends with not-found after
\* exactly one attempt, whatever its amount and its key; it never stands
\* inside a scope, holds no lock, writes nothing, and none of its steps
\* changes a balance or the history.
C11_UnknownUser == []C11_NoScope /\ [][C11_Step]_vars

\* a request for an unknown user carried a key the history already held
\* and was answered not-found
C11_Witness ==
  \E r \in Issued :
    /\ UnknownUser(r)
    /\ seen[r].rec # NoRec
    /\ pc[r] = "done"
    /\ result[r].kind = "not_found"
    /\ attempt[r] = 1

(* ------------------------------- C12 ---------------------------------- *)
RECURSIVE SumRequested(_)
SumRequested(S) ==
  IF S = {} THEN 0
  ELSE LET r == CHOOSE x \in S : TRUE IN req[r].amount + SumRequested(S \ {r})

\* the requests issued so far were issued one after another against the
\* account of user u, with pairwise distinct keys, each for at most the
\* balance its predecessors left
Sequence(u) ==
  /\ Issued # {}
  /\ \A r \in Issued :
       /\ req[r].userId = u
       /\ seen[r].alone
       /\ req[r].amount <= seen[r].balance
  /\ \A r \in Issued, q \in Issued :
       r # q => req[r].idempotencyKey # req[q].idempotencyKey

\* C12: once the K requests of such a sequence have all ended, every one
\* of them ended in success with a record of its own, the balance is the
\* initial one minus the sum of the K amounts and the history holds
\* exactly K records.  (No request issued alone ever waits for a lock or
\* for a backoff delay, so the sequence always ends.)
C12_SequentialConsistency ==
  /\ \A r \in DOMAIN pc : pc[r] \notin {"wait_row", "wait_key", "delay"}
  /\ \A u \in Users :
       (Sequence(u) /\ AllDone)
       => /\ \A r \in Issued :
               /\ result[r].kind = "success"
               /\ result[r].rec \in history
               /\ result[r].rec.id[1] = r
          /\ balance[u] = InitBalance - SumRequested(Issued)
          /\ Cardinality(history) = Cardinality(Issued)

\* three or more debits in sequence emptied the account
C12_Witness ==
  \E u \in Users :
    /\ Sequence(u) /\ AllDone
    /\ Cardinality(Issued) >= 3
    /\ Cardinality(history) = Cardinality(Issued)
    /\ balance[u] = 0

(* ------------------------------- C13 ---------------------------------- *)
\* the service was invoked for request r
Invoked(r) == attempt[r] >= 1

C13_NotInvoked ==
  \A r \in DOMAIN pc :
    (r \in Issued /\ req[r].idempotencyKey \in {AbsentKey, EmptyKey})
    => /\ pc[r] = "done"
       /\ result[r] = Failure("bad_request", BadRequest)
       /\ ~Invoked(r)
       /\ RecordsOf(r) = {}
       /\ findOne(req[r].idempotencyKey) = {}

C13_Step ==
  \A r \in DOMAIN pc :
    (pc[r] = "idle" /\ pc'[r] # "idle" /\ req'[r].idempotencyKey \in {AbsentKey, EmptyKey})
    => /\ balance' = balance
       /\ history' = history
       /\ rowLock' = rowLock
       /\ keyLock' = keyLock
       /\ attempt' = attempt

\* C13: a POST whose idempotency-key header is missing or empty is
\* answered 400 in the step that receives it: createTransaction of the
\* service is not invoked for it (no attempt is counted), and no balance,
\* history record or lock changes.
C13_MissingKeyRejected == []C13_NotInvoked /\ [][C13_Step]_vars

\* a POST without the header and one with an empty header were both
\* refused
C13_Witness ==
  \E r \in Issued, q \in Issued :
    /\ req[r].idempotencyKey = AbsentKey
    /\ req[q].idempotencyKey = EmptyKey
    /\ result[r].kind = "bad_request"
    /\ result[q].kind = "bad_request"
    /\ attempt[r] = 0 /\ attempt[q] = 0

(* ------------------------------- C14 ---------------------------------- *)
C14_Range ==
  \A r \in DOMAIN pc :
    /\ attempt[r] \in 0..MAX_RETRIES
    /\ r \in Issued => attempt[r] >= 1

C14_Step ==
  \A r \in DOMAIN pc :
    \* the counter starts at 1 and grows by exactly 1, after a delay only
    /\ attempt'[r] # attempt[r]
         => \/ pc[r] = "idle" /\ attempt'[r] = 1
            \/ pc[r] = "delay" /\ attempt'[r] = attempt[r] + 1
    \* a delay is entered only from a retryable failure below the ceiling
    /\ (pc'[r] = "delay" /\ pc[r] # "delay")
         => /\ pc[r] = "failed"
            /\ isRetryableError(err[r])
            /\ attempt[r] < MAX_RETRIES
    \* every invocation of processTransaction is counted
    /\ (pc'[r] = "exists" /\ pc[r] # "exists") => attempt'[r] = attempt[r] + 1
    \* a settled request is not invoked again
    /\ pc[r] = "done"
         => /\ pc'[r] = "done"
            /\ result'[r] = result[r]
            /\ attempt'[r] = attempt[r]
    \* a success settles the request in the step that produces it
    /\ (result'[r].kind = "success" /\ result[r].kind # "success")
         => pc[r] \in {"commit", "failed"} /\ pc'[r] = "done"

\* C14: the attempt counter of a request starts at 1 and grows by exactly
\* 1 per retry; attempt n is followed by attempt n + 1 only if attempt n
\* failed with a retryable failure and n < 5; processTransaction is
\* invoked once per count, so at most 5 times; once an attempt has
\* succeeded the result is returned and nothing of the request runs again.
C14_RetryStateMachine == []C14_Range /\ [][C14_Step]_vars

\* a request failed four times with a retryable failure and committed in
\* its fifth attempt
C14_Witness ==
  \E r \in Issued :
    /\ attempt[r] = MAX_RETRIES
    /\ result[r].kind = "success"
    /\ result[r].rec.id = <<r, MAX_RETRIES>>

(* ------------------------------- C15 ---------------------------------- *)
\* the failure thrown in request r is handled in this step
Caught(r) == pc[r] = "failed" /\ <<pc'[r], err'[r]>> # <<pc[r], err[r]>>

\* the failure is a uniqueness violation on the key, caught as such
DuplicateKey(e) == e.qfe /\ isIdempotencyError(e)

C15_Step ==
  \A r \in DOMAIN pc :
    Caught(r)
    => /\ attempt'[r] = attempt[r]
       /\ DuplicateKey(err[r])
            => /\ delayMs'[r] = 0
               /\ \/ pc'[r] = "done" /\ result'[r].kind = "success"
                  \/ pc'[r] = "failed" /\ err'[r] = DuplicateNotFound
       /\ (~DuplicateKey(err[r]) /\ ~isRetryableError(err[r]))
            => /\ delayMs'[r] = 0
               /\ pc'[r] = "done"
               /\ result'[r].error = err[r]
               /\ result'[r].rec = NoRec
               /\ err[r] = InsufficientFunds => result'[r].kind = "insufficient_funds"
               /\ err[r] = NotFound => result'[r].kind = "not_found"
               /\ err[r] = DuplicateNotFound => result'[r].kind = "conflict"
               /\ err[r] \notin ProcessorExceptions => result'[r].kind = "storage_error"

C15_Ended ==
  \A r \in DOMAIN pc :
    /\ pc[r] = "delay" <=> delayMs[r] > 0
    /\ (pc[r] = "done" /\ result[r].kind # "success")
         => /\ result[r].error # NoErr
            /\ result[r].error.code \in {"insufficient_funds", "not_found", "conflict"}
                 <=> result[r].kind = result[r].error.code

\* C15: an attempt that fails with insufficient funds, not-found, the
\* conflict of the replay lookup or any failure that isRetryableError
\* rejects is not retried: the step that catches it settles the request at
\* the same attempt count, starts no delay, and the caller gets exactly
\* that failure.  A duplicate-key failure is resolved in the attempt that
\* raised it and starts no retry either.
C15_NonRetryableNeverRetried == []C15_Ended /\ [][C15_Step]_vars

\* a request was retried twice and ended at its third attempt with a
\* failure of the store that is not retryable
C15_Witness ==
  \E r \in Issued :
    /\ pc[r] = "done"
    /\ result[r].kind = "storage_error"
    /\ result[r].error \in Signatures
    /\ ~isRetryableError(result[r].error)
    /\ attempt[r] = 3
    /\ delayMs[r] = 0

(* ------------------------------- C16 ---------------------------------- *)
\* the caller of request r sees a retryable failure of the store
Exhausted(r) ==
  /\ pc[r] = "done"
  /\ result[r].kind = "storage_error"
  /\ isRetryableError(result[r].error)

C16_Step ==
  \A r \in DOMAIN pc :
    \* the failure that surfaces is the one the fifth attempt raised
    /\ (pc[r] # "done" /\ pc'[r] = "done" /\ isRetryableError(result'[r].error))
         => /\ pc[r] = "failed"
            /\ attempt[r] = MAX_RETRIES
            /\ result'[r] = Failure("storage_error", err[r])
    \* and each attempt before it ended in a retryable failure: an attempt
    \* follows another one only through a delay, and a delay only follows
    \* a retryable failure
    /\ attempt'[r] > attempt[r] /\ attempt[r] >= 1 => pc[r] = "delay"
    /\ (pc'[r] = "delay" /\ pc[r] # "delay")
         => /\ pc[r] = "failed"
            /\ isRetryableError(err[r])
            /\ ~DuplicateKey(err[r])
    \* a retryable failure at the fifth attempt is what the caller gets
    /\ (Caught(r) /\ isRetryableError(err[r]) /\ ~DuplicateKey(err[r])
           /\ attempt[r] = MAX_RETRIES)
         => pc'[r] = "done" /\ result'[r] = Failure("storage_error", err[r])

\* C16: a request ends with a retryable failure of the store visible to
\* its caller only at its fifth attempt, each of the four before having
\* ended in a retryable failure too; what it surfaces is the failure the
\* fifth attempt raised, unchanged, under no other kind.
C16_ExhaustionSurfacesLastError ==
  /\ [](\A r \in DOMAIN pc : Exhausted(r) => attempt[r] = MAX_RETRIES)
  /\ [][C16_Step]_vars

\* a request gave up at its fifth attempt and surfaced a detected deadlock
C16_Witness ==
  \E r \in Issued :
    /\ Exhausted(r)
    /\ attempt[r] = MAX_RETRIES
    /\ result[r].error = DeadlockDetected

(* ------------------------------- C17 ---------------------------------- *)
\* Success; BusinessError (insufficient funds, not-found, conflict);
\* FatalError and RetriesExhausted (a failure of the store, not retryable
\* or raised by the fifth attempt)
Terminal(r) ==
  /\ pc[r] = "done"
  /\ \/ result[r].kind = "success" /\ result[r].rec # NoRec
     \/ /\ result[r].kind \in {"insufficient_funds", "not_found", "conflict"}
        /\ result[r].error \in ProcessorExceptions
     \/ /\ result[r].kind = "storage_error"
        /\ isRetryableError(result[r].error) => attempt[r] = MAX_RETRIES

C17_Settled ==
  \A r \in DOMAIN pc :
    /\ pc[r] = "done" <=> result[r] # NoResult
    /\ pc[r] = "done" => Terminal(r)

C17_Stable ==
  \A r \in DOMAIN pc :
    pc[r] = "done" => pc'[r] = "done" /\ result'[r] = result[r]

\* C17: every request that was issued is eventually settled, whatever the
\* other requests do and however often the store aborts its scopes; it is
\* settled in exactly one terminal state, which it never leaves.
C17_Termination ==
  /\ \A r \in Reqs : (pc[r] # "idle") ~> Terminal(r)
  /\ []C17_Settled
  /\ [][C17_Stable]_vars

\* all requests are settled, one of them after its scopes were aborted in
\* five attempts
C17_Witness ==
  /\ Issued = Reqs
  /\ \A r \in Reqs : Terminal(r)
  /\ \E r \in Reqs : attempt[r] = MAX_RETRIES /\ result[r].kind = "storage_error"

(* ------------------------------- C18 ---------------------------------- *)
\* the bounds of the delay after attempt n, in milliseconds
DelayAtLeast(n) ==
  CASE n = 1 -> 50 [] n = 2 -> 100 [] n = 3 -> 200 [] n = 4 -> 400 [] OTHER -> 0

DelayBelow(n) ==
  CASE n = 1 -> 75 [] n = 2 -> 150 [] n = 3 -> 300 [] n = 4 -> 600 [] OTHER -> 0

C18_InRange ==
  \A r \in DOMAIN pc :
    /\ pc[r] = "delay"
         => /\ attempt[r] \in 1..4
            /\ delayMs[r] >= DelayAtLeast(attempt[r])
            /\ delayMs[r] < DelayBelow(attempt[r])
    /\ pc[r] # "delay" => delayMs[r] = 0

C18_Step ==
  \A r \in DOMAIN pc :
    \* a delay starts only when an attempt below the fifth has failed, and
    \* the attempt that follows it is the next one
    /\ (pc'[r] = "delay" /\ pc[r] # "delay") => pc[r] = "failed" /\ attempt[r] <= 4
    /\ pc[r] = "delay" /\ pc'[r] # "delay"
         => pc'[r] = "exists" /\ attempt'[r] = attempt[r] + 1
    \* the fifth attempt is followed by no delay
    /\ (Caught(r) /\ attempt[r] = MAX_RETRIES) => pc'[r] # "delay" /\ delayMs'[r] = 0

\* C18: the delay waited after a retryable failure of attempt n, n = 1..4,
\* lies in [50 * 2^(n-1), 75 * 2^(n-1)) milliseconds; one delay separates
\* two attempts, so at most 4 occur per request, and none follows
\* attempt 5.
C18_BackoffSchedule == []C18_InRange /\ [][C18_Step]_vars

\* a request waits after its fourth attempt, with a jitter above zero
C18_Witness ==
  \E r \in Issued :
    /\ pc[r] = "delay"
    /\ attempt[r] = 4
    /\ delayMs[r] > 400
    /\ delayMs[r] < 600

(* ------------------------------- C19 ---------------------------------- *)
C19_Step ==
  \A r \in DOMAIN pc :
    /\ (Caught(r) /\ DuplicateKey(err[r]))
         => \* the failed scope is gone when the lookup is answered
            /\ \A u \in DOMAIN rowLock : rowLock'[u] # r
            /\ \A k \in DOMAIN keyLock : keyLock'[k] # r
            /\ saved'[r] = NoRec
            /\ IF findOne(req[r].idempotencyKey) # {}
                 THEN /\ pc'[r] = "done"
                      /\ result'[r].kind = "success"
                      /\ result'[r].rec \in history
                      /\ result'[r].rec.idempotencyKey = req[r].idempotencyKey
                 ELSE /\ pc'[r] = "failed"
                      /\ err'[r] = DuplicateNotFound
                      /\ result'[r] = NoResult
    /\ (Caught(r) /\ err[r] = DuplicateNotFound)
         => /\ pc'[r] = "done"
            /\ result'[r] = Failure("conflict", DuplicateNotFound)
            /\ result'[r].kind # "insufficient_funds"
            /\ result'[r].error # InsufficientFunds

C19_NoFalseSuccess ==
  \A r \in DOMAIN pc :
    /\ pc[r] = "done" => result[r].kind # "pending"
    /\ result[r].kind = "success"
         => /\ result[r].rec # NoRec
            /\ result[r].rec \in history
            /\ result[r].rec.idempotencyKey = req[r].idempotencyKey

\* C19: an attempt that fails with a uniqueness violation on the key is
\* answered, once its scope is rolled back, with the committed record a
\* lookup of the key finds, or, when the lookup finds none, with a
\* conflict that is not the insufficient-funds conflict; no request ends
\* in success without a record of its key, and none ends without result.
C19_DuplicateKeyPath == []C19_NoFalseSuccess /\ [][C19_Step]_vars

\* the store reported a duplicate of a key no record holds: the request
\* ended with the conflict, while another request had committed
C19_Witness ==
  \E r \in Issued :
    /\ pc[r] = "done"
    /\ result[r] = Failure("conflict", DuplicateNotFound)
    /\ findOne(req[r].idempotencyKey) = {}
    /\ history # {}

(* ------------------------------- C20 ---------------------------------- *)
\* C20: whatever failure a request has caught, of any signature
\* (QueryFailedError or not; code 40001, 40P01, 23505 or another;
\* constraint or detail naming the idempotency key or not; message holding
\* a serialization text or not), isRetryableError and isIdempotencyError
\* do not both accept it; and both reject a failure that processTransaction
\* raised itself (insufficient funds, not-found, the lookup conflict).
C20_ExactlyOneClass ==
  \A r \in DOMAIN pc :
    pc[r] = "failed"
    => /\ ~(isRetryableError(err[r]) /\ isIdempotencyError(err[r]))
       /\ err[r] \in ProcessorExceptions
            => ~isRetryableError(err[r]) /\ ~isIdempotencyError(err[r])

(* ------------------------------- C21 ---------------------------------- *)
\* the scope of r is open: it holds a lock or an uncommitted write
OpenScope(r) ==
  \/ \E u \in DOMAIN rowLock : rowLock[u] = r
  \/ \E k \in DOMAIN keyLock : keyLock[k] = r
  \/ written[r] # 0
  \/ saved[r] # NoRec

\* the requests whose open scope holds the lock the statement of q waits for
Blockers(q) ==
  {p \in DOMAIN pc :
     \/ pc[q] = "wait_row" /\ rowLock[req[q].userId] = p
     \/ pc[q] = "wait_key" /\ keyLock[req[q].idempotencyKey] = p}

C21_NoScope ==
  \A r \in DOMAIN pc : pc[r] = "delay" => ~OpenScope(r) /\ delayMs[r] > 0

C21_NotBlocking ==
  \A q \in DOMAIN pc : \A p \in Blockers(q) : pc[p] # "delay" /\ OpenScope(p)

\* a step taken while r stays in its delay changes nothing of r, and a
\* statement another request runs in it is not made to wait by r
C21_Step ==
  \A r \in DOMAIN pc :
    pc[r] = "delay" /\ pc'[r] = "delay"
    => /\ attempt'[r] = attempt[r] /\ delayMs'[r] = delayMs[r]
       /\ result'[r] = result[r] /\ ~OpenScope(r)'
       /\ \A q \in DOMAIN pc : r \notin Blockers(q)'

\* C21: a request in its backoff delay holds no open scope: no row lock,
\* no key entry, no uncommitted balance or record (the failed scope was
\* rolled back before the delay began); no statement of another request
\* waits for a request in its delay, and a step another request takes
\* during the delay leaves the delaying request as it is.
C21_DelayHoldsNoScope ==
  []C21_NoScope /\ []C21_NotBlocking /\ [][C21_Step]_vars

\* the first request is in the delay after its first attempt; another
\* request, issued in that delay, has committed a debit of the same
\* account
C21_Witness ==
  \E q \in Issued \ {1} :
    /\ pc[1] = "delay" /\ attempt[1] = 1
    /\ req[q].userId = req[1].userId
    /\ pc[q] = "done" /\ result[q].kind = "success"
    /\ result[q].rec.id = <<q, 1>>
    /\ result[q].rec \in history

(* ------------------------------- C22 ---------------------------------- *)
\* C22: the record of every request that ended in success, created or
\* replayed, has the userId, the action, the amount and the
\* idempotencyKey of that request.
C22_SuccessCarriesRequest ==
  \A r \in Issued :
    pc[r] = "done" /\ result[r].kind = "success"
    => /\ result[r].rec.userId = req[r].userId
       /\ result[r].rec.action = "DEBIT"
       /\ result[r].rec.amount = req[r].amount
       /\ result[r].rec.idempotencyKey = req[r].idempotencyKey

(* ------------------------------- C23 ---------------------------------- *)
\* what a step does to the committed history: nothing, or it adds the one
\* record the committing scope of some request r had saved, with an id and
\* a key no record had, together with r's decrement of the balance
C23_Step ==
  /\ history \subseteq history'
  /\ history' # history
       => \E r \in DOMAIN pc :
            LET rec == saved[r] IN
            /\ pc[r] = "commit" /\ pc'[r] = "done"
            /\ history' = history \cup {rec}
            /\ rec.userId = req[r].userId
            /\ \A old \in history :
                 old.id # rec.id /\ old.idempotencyKey # rec.idempotencyKey
            /\ balance'[rec.userId] = balance[rec.userId] - rec.amount
            /\ result'[r] = Success(rec)
  /\ \A r \in DOMAIN pc :
       pc[r] = "commit" /\ pc'[r] = "failed" => saved[r] \notin history'

\* C23: the history is append-only and immutable: every record of the
\* committed history is in the history of every later state with the same
\* id, userId, action, amount, idempotencyKey and ts; a step adds at most
\* one record, and only as the commit of an attempt that decrements the
\* balance of the record's user by the record's amount in the same step; a
\* scope that fails after its save adds nothing.
C23_AppendOnly == [][C23_Step]_vars

\* two records are in the history, the older one as it was committed; the
\* newer one was committed by the second attempt of its request, whose
\* first scope was aborted and added nothing
C23_Witness ==
  \E old \in history, new \in history :
    /\ old.ts < new.ts
    /\ new.id[2] = 2
    /\ \A rec \in history : rec.id[1] = new.id[1] => rec = new

(* ------------------------------- C24 ---------------------------------- *)
\* the committed records of the attempts of r
Records(r) == {rec \in history : rec.id[1] = r}

C24_AtMostOne ==
  \A r \in DOMAIN pc :
    /\ Cardinality(Records(r)) <= 1
    /\ Records(r) # {} => pc[r] = "done" /\ result[r].kind = "success"
                          /\ Records(r) = {result[r].rec}

C24_Step ==
  /\ \A r \in DOMAIN pc :
       \* a further attempt starts from the delay, nothing of the attempts
       \* before it being open or committed
       /\ attempt[r] >= 1 /\ attempt'[r] # attempt[r]
            => /\ pc[r] = "delay" /\ pc'[r] = "exists"
               /\ attempt'[r] = attempt[r] + 1
               /\ ~OpenScope(r) /\ Records(r) = {}
       \* the commit of an attempt is the first of its request, and the
       \* last step of it
       /\ Records(r)' # Records(r)
            => /\ pc[r] = "commit" /\ pc'[r] = "done" /\ Records(r) = {}
               /\ balance' = [balance EXCEPT ![req[r].userId] = @ - req[r].amount]
       /\ pc[r] = "done" => pc'[r] = "done" /\ attempt'[r] = attempt[r]
  \* a balance changes only in the commit of an attempt
  /\ balance' # balance
       => \E r \in DOMAIN pc : Records(r) = {} /\ Records(r)' # {}

\* C24: of all the attempts of one request at most one commits: the
\* history never holds two records of one request, a balance changes only
\* in the commit of an attempt, by the amount of its request, that commit
\* ends the request, and a further attempt starts only once the scope of
\* the attempt before it is rolled back and has left no record.
C24_AtMostOneCommit == []C24_AtMostOne /\ [][C24_Step]_vars

\* a request committed in its third attempt: two scopes of it were rolled
\* back, its account was debited once
C24_Witness ==
  \E r \in Issued :
    /\ pc[r] = "done" /\ attempt[r] = 3
    /\ Records(r) = {result[r].rec}
    /\ Debits(req[r].userId) = Records(r)
    /\ balance[req[r].userId] = InitBalance - req[r].amount

(* ------------------------------- C25 ---------------------------------- *)
\* the requests whose scope commits in a step
Committing == {r \in DOMAIN pc : pc[r] = "commit" /\ pc'[r] = "done"}

C25_Step ==
  /\ \A u \in DOMAIN balance :
       balance'[u] # balance[u] => \E r \in Committing : req[r].userId = u
  /\ \A rec \in history' \ history :
       \E r \in Committing : req[r].userId = rec.userId
  /\ \A r \in Committing : \A u \in DOMAIN balance :
       u # req[r].userId => balance'[u] = balance[u] /\ Debits(u)' = Debits(u)

\* an account no request has named is as it was created
C25_Untouched ==
  \A u \in DOMAIN balance :
    (\A r \in Issued : req[r].userId # u)
    => balance[u] = InitBalance /\ Debits(u) = {} /\ rowLock[u] = 0

\* C25: a step changes the balance of a user, or adds a record with the
\* userId of a user, only as the commit of a request that names that
\* user, whatever key the request carries; the commit of a request for one
\* user leaves the balance and the records of every other user as they
\* are, and an account no request names keeps its balance and has no
\* record.
C25_FrameAcrossAccounts == []C25_Untouched /\ [][C25_Step]_vars

\* a request for one user carried the key of the record of another user
\* and ended: the other user's balance and records are those of that one
\* record, the user of the request has its balance and no record
C25_Witness ==
  \E r \in Issued : \E rec \in history :
    /\ pc[r] = "done"
    /\ rec.idempotencyKey = req[r].idempotencyKey
    /\ rec.userId # req[r].userId /\ req[r].userId \in Users
    /\ Debits(rec.userId) = {rec}
    /\ balance[rec.userId] = InitBalance - rec.amount
    /\ Debits(req[r].userId) = {}
    /\ balance[req[r].userId] = InitBalance

(* ------------------------------- C26 ---------------------------------- *)
\* r was refused for insufficient funds: thrown and not caught yet, or
\* answered
Refused(r) ==
  \/ pc[r] = "failed" /\ err[r] = InsufficientFunds
  \/ pc[r] = "done" /\ result[r].kind = "insufficient_funds"

C26_Step ==
  \A r \in DOMAIN pc :
    \* the refusal is thrown by the UPDATE of a stored user whose balance
    \* is below the amount; that attempt is the last
    /\ ~Refused(r) /\ Refused(r)'
         => /\ pc[r] \in {"update", "wait_row"} /\ pc'[r] = "failed"
            /\ req[r].userId \in Users
            /\ balance[req[r].userId] < req[r].amount
            /\ balance'[req[r].userId] = balance[req[r].userId]
    /\ Refused(r) => Refused(r)' /\ attempt'[r] = attempt[r]
    \* no other failure is answered as insufficient funds
    /\ pc[r] = "failed" /\ err[r] # InsufficientFunds
         => ~(pc'[r] = "done" /\ result'[r].kind = "insufficient_funds")

\* a refused request names a stored user whose balance is below its amount
C26_Below ==
  \A r \in DOMAIN pc :
    Refused(r)
    => /\ req[r].userId \in Users
       /\ balance[req[r].userId] < req[r].amount
       /\ ~OpenScope(r)

\* C26: a request is refused for insufficient funds only by the
\* conditional UPDATE of its last attempt, run against a stored user
\* whose balance is strictly less than the amount; a retryable conflict, a
\* duplicate key, a missing user or any other failure never ends as
\* insufficient funds, and the balance of a refused request's user is
\* below its amount from the refusal on.
C26_NoSpuriousRefusal == []C26_Below /\ [][C26_Step]_vars

\* a request that lost the row to a concurrent commit was retried and
\* refused in its second attempt: the balance covered its amount when it
\* was issued and is below it now
C26_Witness ==
  \E r \in Issued :
    /\ pc[r] = "done" /\ result[r].kind = "insufficient_funds"
    /\ attempt[r] = 2
    /\ seen[r].balance >= req[r].amount
    /\ balance[req[r].userId] < req[r].amount

====
